---- MODULE Spec2Model ----
(***************************************************************************)
(* Server Guardian+ moderation bot (src/server.py) as a state machine.     *)
(*                                                                         *)
(* The bot runs on one asyncio event loop: a handler runs without          *)
(* interruption from one await that really suspends to the next, so each   *)
(* action below is the code between two suspension points.  The classifier *)
(* call (openai...create, line 50) is a blocking call, not an await, and   *)
(* check_spam has no await inside: the code from the lexical filter of     *)
(* line 95 to the first message.delete() is one step.                      *)
(*                                                                         *)
(* Scores and thresholds are floats in the code; here they are counted in  *)
(* tenths (0.7 is 7).  Time is counted in whole seconds and does not run   *)
(* backwards.                                                              *)
(*                                                                         *)
(* The entries of config that no command writes (spam_threshold,           *)
(* auto_mute_violations, mute_duration) are parameters: Init chooses them. *)
(*                                                                         *)
(* Collaborator failures that are inputs of the model: the classifier call *)
(* (raises, unparsable reply, reply that is no object or lacks a field),    *)
(* message.delete(),                                                       *)
(* the direct warning, the send to the mod log channel, create_role,       *)
(* set_permissions, add_roles and remove_roles.  A channel notice and a    *)
(* command's answer are taken to be sent.                                  *)
(*                                                                         *)
(* The guild is part of the state: its members, its channels (the mod log  *)
(* channel can be deleted after !setlogchannel named it) and its roles     *)
(* named Muted (none until a handler creates one; handlers that meet at    *)
(* create_role create one each).  Every user who writes is a member; in    *)
(* SpecTop a user of the ledger may have left.                             *)
(*                                                                         *)
(* The specifications:                                                     *)
(*   Spec       the pipeline and the commands, time left out, no mod log,  *)
(*              a guild that has its Muted role                            *)
(*   SpecAudit  the violation path with the mod log channel                *)
(*   SpecTimed  the violation path with the clock running, a mute lasts    *)
(*   SpecSpam   check_spam alone over two spam windows of time             *)
(*   SpecWindow the violation path with a clock that leaves the window     *)
(*   SpecRoles  the violation path in a guild that has no Muted role yet   *)
(*   SpecTop    !violations alone over ledgers longer than its limit       *)
(***************************************************************************)
EXTENDS Integers, Sequences, FiniteSets, TLC

\* ---------------------------------------------------------------- bounds
MaxTime == 1
MaxMessages == 2
MaxAutoMute == 2
MuteDuration == 1
MainSpamThreshold == 2
SpamMaxTime == 21
SpamMaxCalls == 3
MaxSpamThreshold == 3
MaxLedger == 11
MaxLongTicks == 2

\* ------------------------------------------------------ program constants
\* the 10 of line 73; 0.9 of line 107 and 0.7 of line 27 in tenths; the 10 of
\* line 283
WindowSeconds == 10
SpamScore == 9
DefaultToxicityThreshold == 7
TopLimit == 10

Users == {"u1", "u2"}
Admins == {"u1"}
None == "None"
LogChannel == "log"
\* the channels a guild has: the one the users write in and the one
\* !setlogchannel is given
AllChannels == {"general", LogChannel}

\* message.content: what matters of a text is whether its lower-case form
\* contains the hard-coded word (line 95)
Texts == {"hello", "oh SHIT"}
\* the text of a command message: the command alone, or with the word after
\* it (a command ignores the arguments it does not take)
CommandText == "!command"
CommandTexts == {CommandText, "!command SHIT"}
Lower(text) ==
    CASE text = "oh SHIT" -> "oh shit"
      [] text = "!command SHIT" -> "!command shit"
      [] OTHER -> text
ContainsWord(text) == text \in {"oh shit", "shit", "!command shit"}

\* values an administrator can pass to !setthreshold (tenths)
ThresholdInputs == {-1, 0, 10, 11}
\* scores a classifier reply can carry (tenths)
Scores == {0, 7}

\* What the classifier call of lines 50-63 can produce:
\*   raise          the API call raises
\*   unparsable     the reply is not JSON: json.loads raises
\*   ok             a JSON object with all three fields
\*   not_object     JSON that is no object (a list, a number, null)
\*   no_score       a JSON object without toxicity_score
\*   no_categories  a JSON object with a score but no categories
\*   no_reason      a JSON object with a score and categories but no reason
Replies ==
    {[kind |-> k, score |-> 0] : k \in {"raise", "unparsable", "not_object", "no_score"}}
    \cup {[kind |-> k, score |-> s] :
              k \in {"ok", "no_categories", "no_reason"}, s \in Scores}

\* the replies that carry all three fields
FullReplies == {reply \in Replies : reply.kind = "ok"}

VARIABLES
    now,              \* datetime.now().timestamp(), whole seconds
    config,           \* the config dict, lines 26-33
    user_violations,  \* defaultdict(int), line 23: <<user, count>> in insertion order
    user_messages,    \* defaultdict(list), line 36
    muted,            \* per user, the roles named Muted the user holds
    tasks,            \* the suspended handlers past the lexical filter, by slot
    replying,         \* per user, the command messages whose ctx.send is pending
    modlog,           \* what was handed to the mod log channel's send, in order
    guild,            \* members: the users guild.get_member finds; channels:
                      \* guild.channels; roles: how many roles named Muted the
                      \* guild has (numbered in the order they were created)
    calls,            \* ghost: every timestamp check_spam was called with, per user
    received          \* ghost: how many messages of users have arrived

vars == <<now, config, user_violations, user_messages, muted, tasks, replying, modlog,
          guild, calls, received>>

\* ------------------------------------------------- the defaultdict(int)
HasKey(d, u) == \E i \in DOMAIN d : d[i][1] = u
KeyIndex(d, u) == CHOOSE i \in DOMAIN d : d[i][1] = u
\* the count of u as a reader sees it (0 for a user without an entry)
Count(d, u) == IF HasKey(d, u) THEN d[KeyIndex(d, u)][2] ELSE 0
\* d[u] read on a defaultdict: a missing key is inserted with int() = 0
GetItem(d, u) == IF HasKey(d, u) THEN d ELSE Append(d, <<u, 0>>)
\* d[u] = c
SetItem(d, u, c) ==
    IF HasKey(d, u)
    THEN [i \in DOMAIN d |-> IF d[i][1] = u THEN <<u, c>> ELSE d[i]]
    ELSE Append(d, <<u, c>>)

\* ------------------------------------------------------------ check_spam
\* line 73 with <= for <: a timestamp exactly 10 seconds old is kept
Recent_KeepsBoundary(window, t) == SelectSeq(window, LAMBDA x : t - x <= WindowSeconds)
\* line 73 with the comparison turned round: only the old timestamps are kept
Recent_KeepsOld(window, t) == SelectSeq(window, LAMBDA x : t - x >= WindowSeconds)
\* line 73: the timestamps less than 10 seconds old
Recent(window, t) == SelectSeq(window, LAMBDA x : t - x < WindowSeconds)
\* line 74 without line 73: nothing is dropped
SpamWindow_NoPruning(window, t) == Append(window, t)
\* line 74 with insert(0, current_time) for append
SpamWindow_Prepends(window, t) == <<t>> \o Recent(window, t)
\* lines 73-74
SpamWindow(window, t) == Append(Recent(window, t), t)
\* line 75
IsSpam(window, t, cfg) == Len(SpamWindow(window, t)) >= cfg.spam_threshold
\* lines 72-74: the window of u is pruned and the call's timestamp appended
check_spam(u) ==
    /\ user_messages' = [user_messages EXCEPT ![u] = SpamWindow(@, now)]
    /\ calls' = [calls EXCEPT ![u] = Append(@, now)]
\* what the last check_spam(u) returned: line 75 takes it from the window it
\* has just stored, and nothing else writes the window or spam_threshold
LastCheck(u) == Len(user_messages[u]) >= config.spam_threshold

\* ----------------------------------------------- analyze_message_toxicity
\* what on_message can read of the value returned: analysis["toxicity_score"]
\* (113), analysis["categories"] (116) and analysis["reason"] (117); a value
\* that is no object has none of them
Fallback == [has_score |-> TRUE, toxicity_score |-> 0, has_categories |-> TRUE,
             has_reason |-> TRUE]
analyze_message_toxicity(reply) ==
    CASE reply.kind \in {"raise", "unparsable"} -> Fallback
      [] reply.kind = "ok" ->
            [has_score |-> TRUE, toxicity_score |-> reply.score, has_categories |-> TRUE,
             has_reason |-> TRUE]
      [] reply.kind = "not_object" ->
            [has_score |-> FALSE, toxicity_score |-> 0, has_categories |-> FALSE,
             has_reason |-> FALSE]
      [] reply.kind = "no_score" ->
            [has_score |-> FALSE, toxicity_score |-> 0, has_categories |-> TRUE,
             has_reason |-> TRUE]
      [] reply.kind = "no_categories" ->
            [has_score |-> TRUE, toxicity_score |-> reply.score, has_categories |-> FALSE,
             has_reason |-> TRUE]
      [] reply.kind = "no_reason" ->
            [has_score |-> TRUE, toxicity_score |-> reply.score, has_categories |-> TRUE,
             has_reason |-> FALSE]

\* ------------------------------------------------------- handle_violation
\* line 138 adding 2
RecordViolation_AddsTwo(d, u) == SetItem(GetItem(d, u), u, Count(d, u) + 2)
\* user_violations[id] += 1 (line 138)
RecordViolation(d, u) == SetItem(GetItem(d, u), u, Count(d, u) + 1)
\* the test of line 182
ReachedAutoMute(violation_count, cfg) == violation_count >= cfg.auto_mute_violations

\* ------------------------------------------------------ log_to_mod_channel
\* line 80: a mod log channel is configured
HasLogChannel(cfg) == cfg.mod_log_channel # None
\* lines 80-82: a channel is configured and guild.get_channel finds it
FindsLogChannel(cfg, g) == HasLogChannel(cfg) /\ cfg.mod_log_channel \in g.channels

\* ---------------------------------------------------------- auto_mute_user
\* What discord.utils.get(guild.roles, name="Muted") of line 190 can return:
\* None (0) when the guild has no such role, otherwise one of them (the
\* first in guild.roles, whose order is Discord's, not the program's).
FoundRoles(g) == IF g.roles = 0 THEN {0} ELSE 1..g.roles
IsMuted(u) == muted[u] # {}

\* ------------------------------------------------------- show_violations
RECURSIVE SortedDesc_TiesReversed(_)
\* sorted(items, key=count)[::-1] for line 283: equal counts come out in
\* reverse order
SortedDesc_TiesReversed(s) ==
    IF s = <<>> THEN <<>>
    ELSE LET m == CHOOSE c \in {s[i][2] : i \in DOMAIN s} :
                      \A j \in DOMAIN s : s[j][2] <= c
             i == CHOOSE a \in DOMAIN s :
                      s[a][2] = m /\ \A b \in DOMAIN s : s[b][2] = m => a >= b
         IN <<s[i]>> \o SortedDesc_TiesReversed(SubSeq(s, 1, i - 1) \o SubSeq(s, i + 1, Len(s)))
RECURSIVE SortedDesc(_)
\* sorted(items, key=count, reverse=True): stable, equal counts keep their order
SortedDesc(s) ==
    IF s = <<>> THEN <<>>
    ELSE LET m == CHOOSE c \in {s[i][2] : i \in DOMAIN s} :
                      \A j \in DOMAIN s : s[j][2] <= c
             i == CHOOSE a \in DOMAIN s :
                      s[a][2] = m /\ \A b \in DOMAIN s : s[b][2] = m => a <= b
         IN <<s[i]>> \o SortedDesc(SubSeq(s, 1, i - 1) \o SubSeq(s, i + 1, Len(s)))
TopN(d) ==
    LET sorted == SortedDesc(d)
    IN SubSeq(sorted, 1, IF Len(sorted) < TopLimit THEN Len(sorted) ELSE TopLimit)

\* ------------------------------------------------------------- on_message
\* What lines 95-119 decide for a message of u, read off the state at the
\* moment the handler runs:
\*   filter    the word is in the text (95)         disabled  not enabled (101)
\*   spam      check_spam returned True (106)       toxic     score >= threshold (113)
\*   clean     score below the threshold
\*   error     line 113 raises (no score to read), or the score is at or above
\*             the threshold and line 116 or 117 raises KeyError: none of
\*             them is in a try, the handler ends there
Outcome(u, text, reply) ==
    IF ContainsWord(Lower(text)) THEN "filter"
    ELSE IF ~config.enabled THEN "disabled"
    ELSE IF IsSpam(user_messages[u], now, config) THEN "spam"
    ELSE LET analysis == analyze_message_toxicity(reply)
         IN IF ~analysis.has_score THEN "error"
            ELSE IF analysis.toxicity_score >= config.toxicity_threshold
                 THEN IF analysis.has_categories /\ analysis.has_reason
                      THEN "toxic" ELSE "error"
                 ELSE "clean"

Suspends(o) == o \in {"filter", "spam", "toxic"}
Counted(o) == o \in {"spam", "toxic"}
\* lines 101 and 105 swapped: check_spam is called before the enabled test
Checked_BeforeEnabledTest(o) == o # "filter"
Checked(o) == o \notin {"filter", "disabled"}
ClassifierCalled(o) == o \in {"toxic", "clean", "error"}

FirstPc(o) == IF o = "filter" THEN "filter_delete" ELSE "delete"

\* ghost: a violation of u is counted; the handlers of u whose sleep (line
\* 200) is not yet due take note of it
Noted(ts, u) ==
    [k \in DOMAIN ts |->
        IF ts[k].pc = "sleep" /\ ts[k].user = u /\ now < ts[k].wake
        THEN [ts[k] EXCEPT !.during = @ \cup {"violation"}] ELSE ts[k]]

\* a free slot of the handler table
\* (role: muted_role of auto_mute_user; todo: the channels the loop of line
\* 194 has still to go through; caught: ghost, whether the deletion of
\* this handler raised and was caught, kept while the audit record is being
\* sent; during: ghost, what was counted against the user while this
\* handler was in the sleep of line 200 and the sleep was not yet due)
Idle == [pc |-> "idle", user |-> "-", kind |-> "-", score |-> 0, vcount |-> 0, wake |-> 0,
         role |-> 0, todo |-> 0, caught |-> FALSE, during |-> {}]
\* the handlers that can be suspended at the same time: one more than
\* MaxMessages, as many as messages arrive in any of the specifications, so
\* that a message always finds a free slot
Slots == 1..(MaxMessages + 1)
FreeSlot == CHOOSE k \in Slots : tasks[k] = Idle /\ \A j \in Slots : tasks[j] = Idle => k <= j
HasFreeSlot == \E k \in Slots : tasks[k] = Idle

\* Lines 95-119 and, for a violation, 138-143: from the lexical filter to the
\* first await that suspends (none for a clean or disabled message, or when
\* line 113 or 116 raises).
Handle(u, text, reply) ==
    LET o == Outcome(u, text, reply)
        uv == IF Counted(o) THEN RecordViolation(user_violations, u)
              ELSE user_violations
        rec == [pc |-> FirstPc(o), user |-> u, kind |-> o,
                score |-> IF o = "spam" THEN SpamScore
                          ELSE IF o = "toxic" THEN reply.score ELSE 0,
                vcount |-> IF Counted(o) THEN Count(uv, u) ELSE 0, wake |-> 0,
                role |-> 0, todo |-> 0, caught |-> FALSE, during |-> {}]
        noted == IF Counted(o) THEN Noted(tasks, u) ELSE tasks
    IN /\ Suspends(o) => HasFreeSlot
       /\ user_violations' = uv
       /\ IF Checked(o) THEN check_spam(u) ELSE UNCHANGED <<user_messages, calls>>
       /\ tasks' = IF Suspends(o) THEN [noted EXCEPT ![FreeSlot] = rec] ELSE noted
       /\ UNCHANGED <<now, config, muted, modlog, guild>>

\* a message of the bot itself (lines 89-90)
BotMessage == UNCHANGED vars

\* a message that is no command (process_commands returns without
\* suspending), while fewer than limit messages have arrived
Arrive(u, text, reply, limit) ==
    /\ received < limit
    /\ received' = received + 1
    /\ Handle(u, text, reply)
    /\ UNCHANGED replying

OnMessage(u, text, reply) == Arrive(u, text, reply, MaxMessages)

\* ---------------------------------------------------------- admin commands
\* A command message runs its command inside process_commands (line 93) up
\* to the command's ctx.send, where the handler suspends; the same message
\* then goes on through lines 95-119 (ContinueAfterCommand).  A message
\* that names no command, or a command its author may not run or whose
\* argument cannot be converted, does not suspend at line 93: it is a
\* message like any other (OnMessage).
Invoke(u, cfg, uv) ==
    /\ received < MaxMessages
    /\ received' = received + 1
    /\ config' = cfg
    /\ user_violations' = uv
    /\ replying' = [replying EXCEPT ![u] = @ + 1]
    /\ UNCHANGED <<now, user_messages, muted, tasks, modlog, guild, calls>>

\* a command under has_permissions(administrator=True)
Command(a, cfg, uv) ==
    /\ a \in Admins
    /\ Invoke(a, cfg, uv)

\* !config (lines 217-231)
show_config(a) == Command(a, config, user_violations)

\* !help (lines 294-329): no has_permissions, every user may run it
help_command(u) == Invoke(u, config, user_violations)

\* line 246 without its lower bound
ThresholdAccepted_NoLowerBound(threshold) == threshold <= 10
\* the test of line 246
ThresholdAccepted(threshold) == 0 <= threshold /\ threshold <= 10

\* !setthreshold (lines 244-250)
set_threshold(a, threshold) ==
    Command(a, IF ThresholdAccepted(threshold)
               THEN [config EXCEPT !.toxicity_threshold = threshold] ELSE config,
            user_violations)

\* !toggle (lines 255-259)
toggle_guardian(a) ==
    Command(a, [config EXCEPT !.enabled = ~config.enabled], user_violations)

\* !setlogchannel (lines 236-239): the converter of discord.TextChannel
\* finds the channel named
set_log_channel(a) ==
    /\ LogChannel \in guild.channels
    /\ Command(a, [config EXCEPT !.mod_log_channel = LogChannel], user_violations)

\* user_violations[member.id] = 0 (line 266)
ResetCount(d, m) == SetItem(d, m, 0)

\* !resetviolations (lines 264-267)
reset_violations(a, m) == Command(a, config, ResetCount(user_violations, m))

\* what !violations @member answers and does to the ledger (lines 274-276):
\* the count is read with user_violations[member.id], a defaultdict read
ShownCount(d, m) == Count(GetItem(d, m), m)
show_violations_member(a, m) == Command(a, config, GetItem(user_violations, m))

\* lines 286-289: the entries whose user guild.get_member finds get a field
MembersOnly(entries, members) == SelectSeq(entries, LAMBDA entry : entry[1] \in members)
\* what !violations answers (lines 277-291): a plain message when the ledger
\* is empty, otherwise an embed with the fields of the ten entries of line 283
ShownTop(d, members) ==
    IF d = <<>> THEN [text |-> "No violations recorded yet", fields |-> <<>>]
    ELSE [text |-> "Top Violators", fields |-> MembersOnly(TopN(d), members)]
show_violations_top(a) == Command(a, config, user_violations)

\* the command's reply is sent: the rest of on_message runs for the command
\* message, whose text is read here for the first time (line 95)
ContinueAfterCommand(u, text, reply) ==
    /\ replying[u] > 0
    /\ text \in CommandTexts
    /\ replying' = [replying EXCEPT ![u] = @ - 1]
    /\ Handle(u, text, reply)
    /\ UNCHANGED received

\* --------------------------------------- the steps of a suspended handler
At(k, pc) == tasks[k].pc = pc

Step(k, rec, m, lg, g) ==
    /\ tasks' = [tasks EXCEPT ![k] = rec]
    /\ muted' = m
    /\ modlog' = lg
    /\ guild' = g
    /\ UNCHANGED <<now, config, user_violations, user_messages, replying, calls, received>>

\* log_to_mod_channel (lines 78-83): the record is sent when a channel is set
\* and the guild still has it
log_to_mod_channel(lg, record) ==
    IF FindsLogChannel(config, guild) THEN Append(lg, record) ELSE lg

\* the filter's message.delete() of line 96 returns, or raises (not caught:
\* the handler ends)
FilterDeleteDone(k, ok) ==
    /\ At(k, "filter_delete")
    /\ Step(k, IF ok THEN [tasks[k] EXCEPT !.pc = "filter_notice"] ELSE Idle,
            muted, modlog, guild)

\* the notice of line 97 is sent
FilterNoticeDone(k) ==
    /\ At(k, "filter_notice")
    /\ Step(k, Idle, muted, modlog, guild)

\* lines 142-145 and 163: whether message.delete() returned or raised, the
\* handler goes on to log_to_mod_channel, which suspends in channel.send
\* when a channel is set and found, and otherwise returns at once, so that
\* the next suspension is the warning
AfterDelete(rec, ok, cfg, g) ==
    [rec EXCEPT !.pc = IF FindsLogChannel(cfg, g) THEN "log" ELSE "warn",
                !.caught = ~ok /\ FindsLogChannel(cfg, g)]
\* lines 166-197: whether the warning was delivered or not, the handler goes
\* on to the test of line 182 and, when it restricts, to line 190: with the
\* role found there add_roles is called (197), without it create_role (192)
AfterWarn(rec, ok, cfg, role) ==
    IF ReachedAutoMute(rec.vcount, cfg)
    THEN [rec EXCEPT !.pc = IF role = 0 THEN "create_role" ELSE "add_roles",
                     !.role = role]
    ELSE Idle

\* message.delete() of line 143 returns or raises (caught, 144-145); the
\* audit embed is built and handed to log_to_mod_channel (148-163)
DeleteDone(k, ok) ==
    /\ At(k, "delete")
    /\ Step(k, AfterDelete(tasks[k], ok, config, guild),
            muted,
            log_to_mod_channel(modlog,
                [kind |-> "violation", user |-> tasks[k].user,
                 category |-> tasks[k].kind, score |-> tasks[k].score,
                 count |-> tasks[k].vcount]),
            guild)

\* channel.send of line 83, called from line 163, returns: the warning is
\* sent (166-177); or it raises: line 163 is in no try, the handler ends
LogDone(k, ok) ==
    /\ At(k, "log")
    /\ Step(k, IF ok THEN [tasks[k] EXCEPT !.pc = "warn", !.caught = FALSE] ELSE Idle,
            muted, modlog, guild)

\* message.author.send of line 177 returns or raises (caught, 178-179);
\* lines 182-197: the decision, the role is looked up, and add_roles or
\* create_role is called
WarnDone(k, ok, role) ==
    /\ At(k, "warn")
    /\ role \in FoundRoles(guild)
    /\ Step(k, AfterWarn(tasks[k], ok, config, role), muted, modlog, guild)

\* create_role of line 192 returns: the guild has one more role named
\* Muted, and the loop of line 194 starts over the channels the guild has
\* now; or it raises (caught, 212-213): the handler ends
CreateRoleDone(k, ok) ==
    /\ At(k, "create_role")
    /\ Step(k, IF ok
               THEN [tasks[k] EXCEPT !.pc = IF guild.channels = {} THEN "add_roles"
                                           ELSE "set_permissions",
                                     !.role = guild.roles + 1,
                                     !.todo = Cardinality(guild.channels)]
               ELSE Idle,
            muted, modlog,
            IF ok THEN [guild EXCEPT !.roles = @ + 1] ELSE guild)

\* set_permissions of line 195 returns for one channel: the next channel, or
\* after the last one add_roles (197); or it raises (caught, 212-213)
SetPermissionsDone(k, ok) ==
    /\ At(k, "set_permissions")
    /\ Step(k, IF ok
               THEN [tasks[k] EXCEPT !.pc = IF tasks[k].todo = 1 THEN "add_roles"
                                           ELSE "set_permissions",
                                     !.todo = @ - 1]
               ELSE Idle,
            muted, modlog, guild)

\* line 200 with time.sleep for asyncio.sleep: the handler keeps the event
\* loop while it waits, nothing else runs until the mute is over, and
\* remove_roles is called next
AddRolesDone_BlockingSleep(k, ok) ==
    /\ At(k, "add_roles")
    /\ tasks' = [tasks EXCEPT ![k] =
                    IF ok THEN [@ EXCEPT !.pc = "remove_roles",
                                         !.wake = now + config.mute_duration]
                    ELSE Idle]
    /\ muted' = IF ok THEN [muted EXCEPT ![tasks[k].user] = @ \cup {tasks[k].role}] ELSE muted
    /\ now' = IF ok THEN now + config.mute_duration ELSE now
    /\ UNCHANGED <<config, user_violations, user_messages, replying, modlog, guild, calls,
                   received>>
\* add_roles of line 197 returns: the user holds the role; asyncio.sleep
\* (200) suspends this handler and nothing else; or it raises (caught,
\* 212-213): the handler ends
AddRolesDone(k, ok) ==
    /\ At(k, "add_roles")
    /\ Step(k, IF ok
               THEN [tasks[k] EXCEPT !.pc = "sleep", !.wake = now + config.mute_duration]
               ELSE Idle,
            IF ok THEN [muted EXCEPT ![tasks[k].user] = @ \cup {tasks[k].role}] ELSE muted,
            modlog, guild)

\* the sleep of line 200 is over; remove_roles is called (201)
SleepDone(k) ==
    /\ At(k, "sleep")
    /\ now >= tasks[k].wake
    /\ Step(k, [tasks[k] EXCEPT !.pc = "remove_roles", !.during = {}], muted, modlog, guild)

\* remove_roles of line 201 returns: the user no longer holds the role, and
\* the unmute is logged (204-210); or it raises (caught, 212-213): the user
\* keeps the role and the handler ends
RemoveRolesDone(k, ok) ==
    /\ At(k, "remove_roles")
    /\ Step(k, IF ok /\ FindsLogChannel(config, guild)
               THEN [tasks[k] EXCEPT !.pc = "unmute_log"] ELSE Idle,
            IF ok THEN [muted EXCEPT ![tasks[k].user] = @ \ {tasks[k].role}] ELSE muted,
            IF ok THEN log_to_mod_channel(modlog,
                           [kind |-> "unmute", user |-> tasks[k].user, category |-> "-",
                            score |-> 0, count |-> 0])
                  ELSE modlog,
            guild)

\* channel.send of line 83, called from line 210, returns, or raises
\* (caught, 212-213): either way the handler ends
UnmuteLogDone(k) ==
    /\ At(k, "unmute_log")
    /\ Step(k, Idle, muted, modlog, guild)

\* the mod log channel is deleted from the guild: guild.get_channel of line
\* 81 returns None from now on
ChannelDeleted ==
    /\ LogChannel \in guild.channels
    /\ guild' = [guild EXCEPT !.channels = @ \ {LogChannel}]
    /\ UNCHANGED <<now, config, user_violations, user_messages, muted, tasks, replying,
                   modlog, calls, received>>

\* the clock
Tick ==
    /\ now < MaxTime
    /\ now' = now + 1
    /\ UNCHANGED <<config, user_violations, user_messages, muted, tasks, replying, modlog,
                   guild, calls, received>>

\* ------------------------------------------------------------ the program
InitConfig ==
    [toxicity_threshold |-> DefaultToxicityThreshold,
     spam_threshold |-> MainSpamThreshold,
     auto_mute_violations |-> MaxAutoMute,
     mute_duration |-> 0,
     mod_log_channel |-> None,
     enabled |-> TRUE]

\* the bot after start-up, in a guild with that many roles named Muted
InitIn(roles) ==
    /\ now = 0
    /\ user_violations = <<>>
    /\ user_messages = [u \in Users |-> <<>>]
    /\ muted = [u \in Users |-> {}]
    /\ tasks = [k \in Slots |-> Idle]
    /\ replying = [u \in Users |-> 0]
    /\ modlog = <<>>
    /\ guild = [members |-> Users, channels |-> AllChannels, roles |-> roles]
    /\ calls = [u \in Users |-> <<>>]
    /\ received = 0

\* a guild that has its Muted role already
InitState == InitIn(1)

Init ==
    /\ InitState
    /\ \E n \in 1..MaxAutoMute : config = [InitConfig EXCEPT !.auto_mute_violations = n]

\* Spec: the pipeline with time left out and no mod log channel set.
\* Everything happens within one second of the clock (less than the spam
\* window, so no timestamp expires) and mute_duration is 0, so a sleeping
\* handler may go on at any moment.
Next ==
    \/ BotMessage
    \/ \E u \in Users, text \in Texts, reply \in Replies : OnMessage(u, text, reply)
    \/ \E a \in Admins, threshold \in ThresholdInputs : set_threshold(a, threshold)
    \/ \E a \in Admins : toggle_guardian(a)
    \/ \E a \in Admins, m \in Users : reset_violations(a, m)
    \/ \E a \in Admins, m \in Users : show_violations_member(a, m)
    \/ \E a \in Admins : show_violations_top(a)
    \/ \E a \in Admins : show_config(a)
    \/ \E u \in Users : help_command(u)
    \/ \E u \in Users, text \in CommandTexts, reply \in Replies :
          ContinueAfterCommand(u, text, reply)
    \/ \E k \in Slots, ok \in BOOLEAN : FilterDeleteDone(k, ok)
    \/ \E k \in Slots : FilterNoticeDone(k)
    \/ \E k \in Slots, ok \in BOOLEAN : DeleteDone(k, ok)
    \/ \E k \in Slots, ok \in BOOLEAN : \E role \in FoundRoles(guild) : WarnDone(k, ok, role)
    \/ \E k \in Slots, ok \in BOOLEAN : AddRolesDone(k, ok)
    \/ \E k \in Slots : SleepDone(k)
    \/ \E k \in Slots, ok \in BOOLEAN : RemoveRolesDone(k, ok)

Spec == Init /\ [][Next]_vars

\* SpecAudit: the violation path with the mod log channel: messages, the
\* command that sets the channel, the deletion of the channel, and every
\* step of a handler.  No count is reset here.
NextAudit ==
    \/ \E u \in Users, text \in Texts, reply \in Replies : OnMessage(u, text, reply)
    \/ \E a \in Admins : set_log_channel(a)
    \/ \E u \in Users, text \in CommandTexts, reply \in Replies :
          ContinueAfterCommand(u, text, reply)
    \/ \E k \in Slots, ok \in BOOLEAN : FilterDeleteDone(k, ok)
    \/ \E k \in Slots : FilterNoticeDone(k)
    \/ \E k \in Slots, ok \in BOOLEAN : DeleteDone(k, ok)
    \/ \E k \in Slots, ok \in BOOLEAN : LogDone(k, ok)
    \/ \E k \in Slots, ok \in BOOLEAN : \E role \in FoundRoles(guild) : WarnDone(k, ok, role)
    \/ \E k \in Slots, ok \in BOOLEAN : AddRolesDone(k, ok)
    \/ \E k \in Slots : SleepDone(k)
    \/ \E k \in Slots, ok \in BOOLEAN : RemoveRolesDone(k, ok)
    \/ \E k \in Slots : UnmuteLogDone(k)
    \/ ChannelDeleted

SpecAudit == Init /\ [][NextAudit]_vars

\* SpecTimed: the clock runs and a mute lasts: messages that the classifier
\* answers in full, the reset of a count, and every step of a handler (no
\* mod log channel, the toxicity threshold and enabled as configured).
InitTimed ==
    /\ InitState
    /\ \E n \in 1..MaxAutoMute :
          config = [InitConfig EXCEPT !.auto_mute_violations = n,
                                      !.mute_duration = MuteDuration]

NextTimed ==
    \/ \E u \in Users, text \in Texts, reply \in FullReplies : OnMessage(u, text, reply)
    \/ \E a \in Admins, m \in Users : reset_violations(a, m)
    \/ \E u \in Users, text \in CommandTexts, reply \in FullReplies :
          ContinueAfterCommand(u, text, reply)
    \/ \E k \in Slots, ok \in BOOLEAN : FilterDeleteDone(k, ok)
    \/ \E k \in Slots : FilterNoticeDone(k)
    \/ \E k \in Slots, ok \in BOOLEAN : DeleteDone(k, ok)
    \/ \E k \in Slots, ok \in BOOLEAN : \E role \in FoundRoles(guild) : WarnDone(k, ok, role)
    \/ \E k \in Slots, ok \in BOOLEAN : AddRolesDone(k, ok)
    \/ \E k \in Slots : SleepDone(k)
    \/ \E k \in Slots, ok \in BOOLEAN : RemoveRolesDone(k, ok)
    \/ Tick

SpecTimed == InitTimed /\ [][NextTimed]_vars

\* ------------------------------------------- check_spam called on its own
\* The spam detector alone, over a horizon longer than its window and for
\* every spam threshold from 1 up.
CheckCall(u) ==
    /\ received < SpamMaxCalls
    /\ received' = received + 1
    /\ check_spam(u)
    /\ UNCHANGED <<now, config, user_violations, muted, tasks, replying, modlog, guild>>

SpamTick ==
    /\ now < SpamMaxTime
    /\ now' = now + 1
    /\ UNCHANGED <<config, user_violations, user_messages, muted, tasks, replying, modlog,
                   guild, calls, received>>

InitSpam ==
    /\ InitState
    /\ \E n \in 1..MaxSpamThreshold : config = [InitConfig EXCEPT !.spam_threshold = n]

NextSpam ==
    \/ \E u \in Users : CheckCall(u)
    \/ SpamTick

SpecSpam == InitSpam /\ [][NextSpam]_vars

\* ------------------------------------- the pipeline over a whole spam window
\* SpecWindow: messages that the classifier answers in full, and every step
\* of their handlers, with a clock that moves half a spam window at a time,
\* so that timestamps leave the window while handlers are suspended.  With
\* spam_threshold and auto_mute_violations at 1 every message is a violation
\* that ends in a mute, and two messages more than spam_threshold arrive:
\* enough for a window to lose a timestamp and still outgrow the threshold.
LongTick ==
    /\ now < MaxLongTicks * (WindowSeconds \div 2)
    /\ now' = now + (WindowSeconds \div 2)
    /\ UNCHANGED <<config, user_violations, user_messages, muted, tasks, replying, modlog,
                   guild, calls, received>>

InitWindow ==
    /\ InitState
    /\ config = [InitConfig EXCEPT !.spam_threshold = 1, !.auto_mute_violations = 1]

NextWindow ==
    \/ \E u \in Users, reply \in FullReplies :
          Arrive(u, "hello", reply, config.spam_threshold + 2)
    \/ \E k \in Slots : DeleteDone(k, TRUE)
    \/ \E k \in Slots : \E role \in FoundRoles(guild) : WarnDone(k, TRUE, role)
    \/ \E k \in Slots, ok \in BOOLEAN : AddRolesDone(k, ok)
    \/ \E k \in Slots : SleepDone(k)
    \/ \E k \in Slots, ok \in BOOLEAN : RemoveRolesDone(k, ok)
    \/ LongTick

SpecWindow == InitWindow /\ [][NextWindow]_vars

\* ------------------------------------------- a guild without a Muted role
\* SpecRoles: violations that restrict at once (auto_mute_violations 1) in a
\* guild that has no role named Muted: the handlers look the role up, create
\* it, set its permissions channel by channel, and restrict.
InitRoles ==
    /\ InitIn(0)
    /\ config = [InitConfig EXCEPT !.auto_mute_violations = 1]

NextRoles ==
    \/ \E u \in Users, reply \in FullReplies : OnMessage(u, "hello", reply)
    \/ \E k \in Slots, ok \in BOOLEAN : DeleteDone(k, ok)
    \/ \E k \in Slots, ok \in BOOLEAN : \E role \in FoundRoles(guild) : WarnDone(k, ok, role)
    \/ \E k \in Slots, ok \in BOOLEAN : CreateRoleDone(k, ok)
    \/ \E k \in Slots, ok \in BOOLEAN : SetPermissionsDone(k, ok)
    \/ \E k \in Slots, ok \in BOOLEAN : AddRolesDone(k, ok)
    \/ \E k \in Slots : SleepDone(k)
    \/ \E k \in Slots, ok \in BOOLEAN : RemoveRolesDone(k, ok)

SpecRoles == InitRoles /\ [][NextRoles]_vars

\* ------------------------------------------------- !violations on its own
\* The leaderboard over ledgers longer than its limit.  The users are
\* numbered in the order their entries were inserted; at most one of them has
\* left the guild.
LedgerUsers == 1..MaxLedger
LedgerCounts == {1, 2}
Ledgers ==
    UNION {{[i \in 1..n |-> <<i, counts[i]>>] : counts \in [1..n -> LedgerCounts]} :
              n \in 0..MaxLedger}

InitTop ==
    /\ now = 0
    /\ config = InitConfig
    /\ user_violations \in Ledgers
    /\ user_messages = [u \in Users |-> <<>>]
    /\ muted = [u \in Users |-> {}]
    /\ tasks = [k \in Slots |-> Idle]
    /\ replying = [u \in Users |-> 0]
    /\ modlog = <<>>
    /\ \E members \in {LedgerUsers} \cup {LedgerUsers \ {u} : u \in LedgerUsers} :
          guild = [members |-> members, channels |-> AllChannels, roles |-> 1]
    /\ calls = [u \in Users |-> <<>>]
    /\ received = 0

NextTop == \E a \in Admins : show_violations_top(a)

SpecTop == InitTop /\ [][NextTop]_vars

\* ------------------------------------------------------------- the claims
\* where auto_mute_user (186-213) can be suspended, and where
\* handle_violation can be before add_roles has returned
Restricting == {"create_role", "set_permissions", "add_roles", "sleep", "remove_roles",
                "unmute_log"}
InViolation == {"delete", "log", "warn", "create_role", "set_permissions", "add_roles"}
TimersOf(u) == {k \in Slots : tasks[k].user = u /\ tasks[k].pc = "sleep"}

\* C1: a user whose restriction was renewed stays muted until the renewed
\* restriction is due: while a sleep started for the user has not reached
\* its wake time, the user holds the Muted role.
C1_RestrictedUntilExpiry ==
    \A k \in Slots :
        (tasks[k].pc = "sleep" /\ now < tasks[k].wake) => IsMuted(tasks[k].user)

\* C2: every user has at most one pending auto-unmute timer.
C2_AtMostOneTimer == \A u \in Users : Cardinality(TimersOf(u)) <= 1

\* C3: when the classifier call fails (it raises, or its reply cannot be
\* parsed) for a message that is not spam, nothing results from the message:
\* no count changes, no handler is left deleting or warning, nobody is muted,
\* nothing is logged, whatever the toxicity threshold.
FailureKinds == {"raise", "unparsable"}
C3_FailOpen ==
    [][\A u \in Users, text \in Texts \cup CommandTexts, reply \in Replies :
          (/\ reply.kind \in FailureKinds
           /\ ClassifierCalled(Outcome(u, text, reply))
           /\ Handle(u, text, reply))
          => UNCHANGED <<user_violations, tasks, muted, modlog>>]_vars

\* C4: the violation action restricts the user exactly when the count its
\* own increment produced is >= auto_mute_violations: after the warning the
\* handler enters auto_mute_user (whose first await is add_roles, or
\* create_role in a guild without the role) exactly then; a violation ends
\* without restricting only with a count below auto_mute_violations; that
\* count is the ledger's count right after the increment; nothing else
\* starts a restriction, so every handler that is restricting carries a
\* count >= auto_mute_violations.
C4_EscalationRule ==
    [][\A k \in Slots :
          /\ (tasks[k].pc = "warn" /\ tasks'[k].pc # "warn")
                => (tasks'[k].pc \in {"create_role", "add_roles"}
                      <=> tasks[k].vcount >= config.auto_mute_violations)
          /\ (tasks[k].pc \in {"delete", "log", "warn"} /\ tasks'[k].pc = "idle")
                => tasks[k].vcount < config.auto_mute_violations
          /\ (tasks[k].pc = "idle" /\ tasks'[k].pc = "delete")
                => tasks'[k].vcount = Count(user_violations', tasks'[k].user)
          /\ (tasks[k].pc \notin Restricting /\ tasks'[k].pc \in Restricting)
                => tasks[k].pc = "warn"
          /\ tasks[k].pc \in Restricting
                => tasks[k].vcount >= config.auto_mute_violations]_vars

\* C5: with no violation of the user in progress, the restriction is removed
\* only when the duration has elapsed since the user was last restricted:
\* remove_roles is called for a user only when none of the user's timers is
\* still running.
C5_RemovedOnlyAfterDuration ==
    [][\A k \in Slots :
          (/\ tasks[k].pc = "sleep"
           /\ tasks'[k].pc = "remove_roles"
           /\ \A j \in Slots : tasks[j].user = tasks[k].user => tasks[j].pc \notin InViolation)
          => \A j \in TimersOf(tasks[k].user) : now >= tasks[j].wake]_vars

\* C8: reading a user's count with !violations @user leaves the ledger as it
\* was.
C8_ReadLeavesLedger ==
    [][\A a \in Admins, m \in Users :
          show_violations_member(a, m) => user_violations' = user_violations]_vars

\* C9: a count changes only by a violation of that user, which makes it the
\* previous count plus 1, or by a reset of that user, which makes it 0; every
\* violation adds exactly 1, every reset leaves 0, and no count is negative.
C9_LedgerCounting ==
    [][/\ \A u \in Users :
            LET before == Count(user_violations, u)
                after == Count(user_violations', u)
            IN /\ after >= 0
               /\ \/ after = before
                  \/ /\ after = before + 1
                     /\ \E k \in Slots : /\ tasks[k].pc = "idle"
                                         /\ tasks'[k].pc = "delete"
                                         /\ tasks'[k].user = u
                  \/ /\ after = 0
                     /\ \E a \in Admins : reset_violations(a, u)
       /\ \A k \in Slots :
            (tasks[k].pc = "idle" /\ tasks'[k].pc = "delete")
                => Count(user_violations', tasks'[k].user)
                      = Count(user_violations, tasks'[k].user) + 1
       /\ \A a \in Admins, m \in Users :
            reset_violations(a, m) => Count(user_violations', m) = 0]_vars

\* a user's count is back at 0 after a violation of that user was counted
C9_Witness ==
    \E k \in Slots :
        /\ tasks[k].pc \in InViolation
        /\ tasks[k].vcount >= 1
        /\ HasKey(user_violations, tasks[k].user)
        /\ Count(user_violations, tasks[k].user) = 0

\* C10: a reply that cannot be parsed or lacks a field is a classification
\* failure: the handler ends without an error and the message is clean.
MalformedKinds == {"unparsable", "not_object", "no_score", "no_categories", "no_reason"}
C10_MalformedIsFailure ==
    [][\A u \in Users, text \in Texts \cup CommandTexts, reply \in Replies :
          (/\ reply.kind \in MalformedKinds
           /\ ClassifierCalled(Outcome(u, text, reply))
           /\ Handle(u, text, reply))
          => Outcome(u, text, reply) = "clean"]_vars

\* ---- check_spam (SpecSpam)
NumWithin(c, t) == Cardinality({i \in DOMAIN c : t - c[i] < 10})
LastCall(u) == calls[u][Len(calls[u])]
Spaced(c) == \A i \in DOMAIN c : i > 1 => c[i] - c[i - 1] >= 10

\* C6: check_spam returns True exactly when the number of calls for that
\* user made less than 10 seconds before the call, the call included, is at
\* least spam_threshold.
C6_CheckCountsRecentCalls ==
    \A u \in Users :
        calls[u] # <<>>
            => (LastCheck(u) <=> NumWithin(calls[u], LastCall(u)) >= config.spam_threshold)

\* the second call within the window was flagged, the third, made after the
\* window expired, is not
C6_Witness ==
    \E u \in Users :
        /\ config.spam_threshold = 2
        /\ Len(calls[u]) = 3
        /\ NumWithin(SubSeq(calls[u], 1, 2), calls[u][2]) >= 2
        /\ calls[u][3] - calls[u][2] >= 15
        /\ ~LastCheck(u)

\* C7 as stated: calls of one user that are each 10 seconds or more after
\* the one before never return True, for every spam_threshold >= 1.
C7_SpacedNeverSpam ==
    \A u \in Users : (calls[u] # <<>> /\ Spaced(calls[u])) => ~LastCheck(u)

\* C7 amended: the same for every spam_threshold >= 2.
C7_SpacedNeverSpamFromTwo ==
    \A u \in Users :
        (config.spam_threshold >= 2 /\ calls[u] # <<>> /\ Spaced(calls[u]))
            => ~LastCheck(u)

C7_Witness ==
    \E u \in Users :
        /\ config.spam_threshold = 2
        /\ Len(calls[u]) = 3
        /\ Spaced(calls[u])

\* ---- the scored pipeline (Spec)
AllTexts == Texts \cup CommandTexts
\* a message of u arrives, or a command message of u goes on after its
\* command: the two steps in which lines 95-119 run for a message of u
MessageStep(u) ==
    \/ received' = received + 1 /\ replying' = replying
    \/ replying'[u] = replying[u] - 1
\* the texts the message handled in this step can have
StepTexts == IF received' = received THEN CommandTexts ELSE Texts
\* a handler of u starts the violation action in this step
Actioned(u) ==
    \E k \in Slots : tasks[k].pc = "idle" /\ tasks'[k].pc = "delete" /\ tasks'[k].user = u
\* the classifier gave a score (its own, or the fallback of line 67) and the
\* score is at or above the threshold
ScoreReached(reply) ==
    LET analysis == analyze_message_toxicity(reply)
    IN /\ analysis.has_score
       /\ analysis.toxicity_score >= config.toxicity_threshold

\* C11: for a message that does not hit the lexical filter, while enabled,
\* the violation action starts exactly when check_spam returned True or the
\* classifier's score is >= toxicity_threshold; the ledger count of the
\* sender grows by exactly 1 when it starts and not at all otherwise; when
\* check_spam returned True the classifier's reply plays no part and the
\* violation carries the category spam and the score 0.9.  (Every such
\* message has check_spam called for its sender, whose list of calls grows.)
C11_DecisionRule ==
    [][\A u \in Users, text \in StepTexts :
          (/\ calls'[u] # calls[u]
           /\ config.enabled
           /\ MessageStep(u)
           /\ ~ContainsWord(Lower(text)))
          => LET spam == IsSpam(user_messages[u], now, config)
             IN /\ \A reply \in Replies :
                      Handle(u, text, reply)
                      => /\ Actioned(u) <=> (spam \/ ScoreReached(reply))
                         /\ Count(user_violations', u)
                               = Count(user_violations, u) + (IF Actioned(u) THEN 1 ELSE 0)
                /\ (spam /\ \E reply \in Replies : Handle(u, text, reply))
                      => /\ \A reply \in Replies : Handle(u, text, reply)
                         /\ \E k \in Slots : /\ tasks[k].pc = "idle"
                                             /\ tasks'[k].kind = "spam"
                                             /\ tasks'[k].score = SpamScore]_vars

\* ---- the violation path (SpecAudit)
\* C12: a message.delete() that raises, or a warning that cannot be
\* delivered, does not end the handler and takes nothing back: the ledger
\* stays as the increment left it; the steps that remain still run (after a
\* failed deletion the violation is logged when a channel is set and found,
\* and when the send of the record is over the handler is at the warning);
\* and after an undelivered warning the handler ends with a count below
\* auto_mute_violations and restricts otherwise.
C12_DeliveryFailuresSwallowed ==
    [][\A k \in Slots :
          /\ DeleteDone(k, FALSE)
                => /\ user_violations' = user_violations
                   /\ tasks[k].vcount >= 1
                   /\ tasks'[k].pc = IF FindsLogChannel(config, guild) THEN "log" ELSE "warn"
                   /\ FindsLogChannel(config, guild)
                         => /\ Len(modlog') = Len(modlog) + 1
                            /\ modlog'[Len(modlog')].user = tasks[k].user
                            /\ modlog'[Len(modlog')].count = tasks[k].vcount
          /\ (tasks[k].caught /\ tasks[k].pc = "log" /\ tasks'[k].pc # "log")
                => tasks'[k].pc = "warn"
          /\ \A role \in FoundRoles(guild) :
                WarnDone(k, FALSE, role)
                => /\ user_violations' = user_violations
                   /\ tasks'[k].pc = IF tasks[k].vcount < config.auto_mute_violations
                                     THEN "idle"
                                     ELSE IF role = 0 THEN "create_role" ELSE "add_roles"]_vars

\* ---- the lexical filter (Spec)
\* C13: a message whose text contains the word, in any case, is handled by
\* the lexical filter whether enabled or not: the handler requests the
\* deletion whatever the classifier would have said, then sends the notice
\* in the channel, then ends; the ledger, the spam windows and the
\* restrictions are left as they were throughout.
C13_LexicalFastPath ==
    [][/\ \A u \in Users, text \in AllTexts, reply \in Replies :
            (ContainsWord(Lower(text)) /\ Handle(u, text, reply))
            => /\ \E k \in Slots : /\ tasks[k].pc = "idle"
                                   /\ tasks'[k].pc = "filter_delete"
                                   /\ tasks'[k].user = u
               /\ \A other \in Replies : Handle(u, text, other)
               /\ UNCHANGED <<user_violations, user_messages, muted>>
       /\ \A k \in Slots :
            /\ (tasks[k].pc = "filter_delete" /\ tasks'[k].pc # "filter_delete")
                  => /\ tasks'[k].pc = "filter_notice"
                     /\ UNCHANGED <<user_violations, user_messages, muted>>
            /\ (tasks[k].pc = "filter_notice" /\ tasks'[k].pc # "filter_notice")
                  => /\ tasks'[k].pc = "idle"
                     /\ UNCHANGED <<user_violations, user_messages, muted>>]_vars

\* C14: while enabled is false, a message that does not hit the lexical
\* filter changes nothing: the sender's spam window (and so every later spam
\* decision), the ledger and the restrictions stay as they were, no handler
\* is left deleting, warning or logging, and the classifier's reply plays no
\* part.
C14_DisabledTakesNoAction ==
    [][~config.enabled
       => \A u \in Users, text \in StepTexts :
             (/\ MessageStep(u)
              /\ ~ContainsWord(Lower(text))
              /\ \E reply \in Replies : Handle(u, text, reply))
             => /\ UNCHANGED <<user_messages, calls, user_violations, muted, tasks, modlog>>
                /\ \A other \in Replies : Handle(u, text, other)]_vars

\* the one message received so far switched the guardian off and then went
\* through on_message itself, leaving no trace
C14_Witness ==
    /\ ~config.enabled
    /\ received = 1
    /\ \A u \in Users : replying[u] = 0 /\ user_messages[u] = <<>>
    /\ user_violations = <<>>
    /\ \A k \in Slots : tasks[k] = Idle

\* ---- the commands (Spec)
ThresholdInRange == 0 <= config.toxicity_threshold /\ config.toxicity_threshold <= 10

\* C15: !setthreshold with a value outside [0, 1] is answered and leaves the
\* whole config as it was; with a value inside [0, 1] it changes
\* toxicity_threshold to that value and nothing else; toxicity_threshold is
\* within [0, 1] in every reachable state.
C15_ThresholdValidation ==
    /\ []ThresholdInRange
    /\ [][\A a \in Admins, threshold \in ThresholdInputs :
            set_threshold(a, threshold)
            => /\ replying'[a] = replying[a] + 1
               /\ IF 0 <= threshold /\ threshold <= 10
                  THEN /\ config'.toxicity_threshold = threshold
                       /\ \A f \in DOMAIN config \ {"toxicity_threshold"} :
                              config'[f] = config[f]
                  ELSE config' = config]_vars

\* the threshold was moved off its default to the largest value accepted,
\* and a second !setthreshold left it there
C15_Witness ==
    /\ config.toxicity_threshold = 10
    /\ received = 2
    /\ replying["u1"] = 2
    /\ user_violations = <<>>
    /\ config.enabled

\* ---- the mod log (SpecAudit)
\* C16: the violation records of one user appear in the mod log in the order
\* in which the user's violations were counted: of two records of the same
\* user, the later one carries the larger count (no count is reset in
\* SpecAudit).
C16_AuditInOrder ==
    \A i, j \in DOMAIN modlog :
        (/\ i < j
         /\ modlog[i].kind = "violation" /\ modlog[j].kind = "violation"
         /\ modlog[i].user = modlog[j].user)
        => modlog[i].count < modlog[j].count

\* ---- handlers of one user running at the same time (SpecAudit)
\* the handlers of u that are on the violation path
ViolationsOf(u) == {k \in Slots : tasks[k].user = u /\ tasks[k].kind \in {"spam", "toxic"}}

\* C17: however the handlers of one user interleave, the user's window and
\* count are as if the messages were handled one at a time: the window holds
\* the timestamp of every check_spam call made less than 10 seconds before
\* the last one (no call read a window that missed an earlier call), and,
\* with no reset, every violation takes the count to the next number: the
\* count it observes is the ledger's count plus 1, above the count every
\* other handler of the user observed, and it is what the ledger then holds.
C17_PerUserSerialized ==
    /\ [](\A u \in Users :
            /\ calls[u] # <<>>
                  => user_messages[u]
                        = SelectSeq(calls[u], LAMBDA x : LastCall(u) - x < 10)
            /\ \A k \in ViolationsOf(u) :
                  /\ 1 <= tasks[k].vcount
                  /\ tasks[k].vcount <= Count(user_violations, u)
                  /\ \A j \in ViolationsOf(u) \ {k} : tasks[j].vcount # tasks[k].vcount)
    /\ [][\A u \in Users, k \in Slots :
            (tasks[k].pc = "idle" /\ tasks'[k].pc = "delete" /\ tasks'[k].user = u)
            => /\ tasks'[k].vcount = Count(user_violations, u) + 1
               /\ Count(user_violations', u) = tasks'[k].vcount
               /\ \A j \in ViolationsOf(u) : tasks[j].vcount < tasks'[k].vcount]_vars

\* two violations of one user are being handled at once, the later one
\* already past its deletion while the earlier one still waits for its own;
\* they observed the counts 1 and 2, the ledger holds 2 and the window both
\* timestamps
C17_Witness ==
    \E k, j \in Slots :
        /\ tasks[k].user = tasks[j].user
        /\ tasks[k].pc = "delete" /\ tasks[k].vcount = 1
        /\ tasks[j].pc = "warn" /\ tasks[j].vcount = 2
        /\ Count(user_violations, tasks[k].user) = 2
        /\ Len(user_messages[tasks[k].user]) = 2

\* ---- the leaderboard (SpecTop)
Min(a, b) == IF a < b THEN a ELSE b
IsLedgerEntry(entry) == \E i \in DOMAIN user_violations : user_violations[i] = entry
\* where the ledger holds the entry of a user
LedgerIndex(u) == CHOOSE i \in DOMAIN user_violations : user_violations[i][1] = u
\* by count descending, and by insertion order within a count
Ranked(entries) ==
    \A i, j \in DOMAIN entries :
        i < j => \/ entries[i][2] > entries[j][2]
                 \/ /\ entries[i][2] = entries[j][2]
                    /\ LedgerIndex(entries[i][1]) < LedgerIndex(entries[j][1])
\* no entry outside ranks before one inside
HoldsLargest(entries) ==
    \A i \in DOMAIN user_violations :
        (\A e \in DOMAIN entries : entries[e] # user_violations[i])
        => \A e \in DOMAIN entries :
              \/ entries[e][2] > user_violations[i][2]
              \/ /\ entries[e][2] = user_violations[i][2]
                 /\ LedgerIndex(entries[e][1]) < i

\* a !violations command is being answered; the ledger and the guild are as
\* the command read them
Asked == \E a \in Admins : replying[a] > 0

\* C18 as stated: what !violations shows is min(10, size of the ledger)
\* ledger entries, by count descending, the largest counts of the ledger,
\* entries of equal count in their insertion order.
C18_TopN ==
    LET fields == ShownTop(user_violations, guild.members).fields
    IN Asked =>
       /\ Len(fields) = Min(TopLimit, Len(user_violations))
       /\ \A e \in DOMAIN fields : IsLedgerEntry(fields[e])
       /\ Ranked(fields)
       /\ HoldsLargest(fields)

\* C18 amended: line 283 takes min(10, size of the ledger) ledger entries, by
\* count descending, the largest counts of the ledger, entries of equal count
\* in their insertion order; what !violations shows is those of them whose
\* user is still in the guild, in the same order.
C18_TopNOfMembers ==
    LET top == TopN(user_violations)
        fields == ShownTop(user_violations, guild.members).fields
    IN Asked =>
       /\ Len(top) = Min(TopLimit, Len(user_violations))
       /\ \A e \in DOMAIN top : IsLedgerEntry(top[e])
       /\ Ranked(top)
       /\ HoldsLargest(top)
       /\ Len(fields) <= TopLimit
       /\ Ranked(fields)
       /\ \A e \in DOMAIN fields :
             fields[e][1] \in guild.members /\ \E t \in DOMAIN top : top[t] = fields[e]
       /\ \A t \in DOMAIN top :
             top[t][1] \in guild.members => \E e \in DOMAIN fields : fields[e] = top[t]

\* !violations was asked with 11 entries in the ledger, the count at the cut
\* shared by the entry taken and the one left out, and with one of the ten
\* taken no longer in the guild
C18_Witness ==
    /\ replying["u1"] >= 1
    /\ Len(user_violations) = TopLimit + 1
    /\ TopN(user_violations)[TopLimit][2] = 1
    /\ \E i \in DOMAIN user_violations :
          /\ user_violations[i][2] = 1
          /\ \A t \in 1..TopLimit : TopN(user_violations)[t] # user_violations[i]
    /\ Len(ShownTop(user_violations, guild.members).fields) = TopLimit - 1

\* ---- the mute timer and the rest of the bot (SpecTimed)
\* the handlers in a sleep that is not yet due
Waiting == {k \in Slots : tasks[k].pc = "sleep" /\ now < tasks[k].wake}

\* C19: a mute that is being waited out holds nothing up.  While a handler
\* is in a sleep that is not yet due, a message of any user (the muted one
\* included), a reset, the rest of a command message and the next step of
\* every other handler can be taken; what is taken then takes effect in that
\* step (the sender's spam window gets the timestamp, a violation adds 1 to
\* the sender's count, a reset leaves 0) while the sleeping handler sleeps
\* on with its wake time unchanged, and a violation of the muted user is
\* counted during that handler's sleep; a handler enters
\* its sleep at the time add_roles returned, and no step of a handler lets
\* the clock move.
C19_TimerDoesNotBlock ==
    /\ [](Waiting # {} =>
            /\ received < MaxMessages
                  => /\ \A u \in Users, text \in Texts, reply \in FullReplies :
                           ENABLED OnMessage(u, text, reply)
                     /\ \A a \in Admins, m \in Users : ENABLED reset_violations(a, m)
            /\ \A u \in Users, text \in CommandTexts, reply \in FullReplies :
                  replying[u] > 0 => ENABLED ContinueAfterCommand(u, text, reply)
            /\ \A k \in Slots :
                  /\ tasks[k].pc = "filter_delete" => ENABLED FilterDeleteDone(k, TRUE)
                  /\ tasks[k].pc = "filter_notice" => ENABLED FilterNoticeDone(k)
                  /\ tasks[k].pc = "delete" => ENABLED DeleteDone(k, TRUE)
                  /\ tasks[k].pc = "warn"
                        => \A role \in FoundRoles(guild) : ENABLED WarnDone(k, TRUE, role)
                  /\ tasks[k].pc = "add_roles" => ENABLED AddRolesDone(k, TRUE)
                  /\ tasks[k].pc = "remove_roles" => ENABLED RemoveRolesDone(k, TRUE))
    /\ [][/\ \A k \in Slots :
                /\ tasks'[k].pc # tasks[k].pc => now' = now
                /\ (tasks[k].pc = "add_roles" /\ tasks'[k].pc \notin {"add_roles", "idle"})
                      => /\ tasks'[k].pc = "sleep"
                         /\ tasks'[k].wake = now + config.mute_duration
          /\ \A k \in Waiting :
                /\ tasks'[k].pc = "sleep" /\ tasks'[k].wake = tasks[k].wake
                /\ \A u \in Users :
                      /\ (MessageStep(u) /\ calls'[u] # calls[u])
                            => user_messages'[u] = SpamWindow(user_messages[u], now)
                      /\ Actioned(u)
                            => /\ Count(user_violations', u) = Count(user_violations, u) + 1
                               /\ u = tasks[k].user => "violation" \in tasks'[k].during
                /\ \A a \in Admins, m \in Users :
                      reset_violations(a, m) => Count(user_violations', m) = 0]_vars

\* while the mute of a user was being waited out and not yet due, another
\* message of the same user was checked for spam, counted and handled all
\* the way to a mute of its own, and the first mute is still not due
C19_Witness ==
    \E k, j \in Slots :
        /\ k # j
        /\ tasks[k].pc = "sleep" /\ now < tasks[k].wake
        /\ "violation" \in tasks[k].during
        /\ tasks[j].user = tasks[k].user
        /\ tasks[j].pc = "sleep"
        /\ tasks[j].vcount = tasks[k].vcount + 1
        /\ Count(user_violations, tasks[k].user) = tasks[j].vcount
        /\ Len(user_messages[tasks[k].user]) = 2
        /\ IsMuted(tasks[k].user)

\* ---- the spam window and the other users (SpecWindow)
\* the window, the count or the restriction of v changes in this step
Touched(v) ==
    \/ user_messages'[v] # user_messages[v]
    \/ Count(user_violations', v) # Count(user_violations, v)
    \/ muted'[v] # muted[v]
\* the user whose handler occupies slot k before or after this step
HandlerUser(k) == IF tasks[k].pc = "idle" THEN tasks'[k].user ELSE tasks[k].user

\* C20: once check_spam was called for a user, the user's window ends with
\* the time of the last call, holds only timestamps less than 10 seconds
\* older than it, in non-decreasing order, and holds every call that recent,
\* however many they are; and a step of a handler of one user leaves the
\* window, the count and the restriction of every other user as they were
\* (no step touches two users, and a step that starts, advances or ends a
\* handler touches nobody but the handler's user).
C20_WindowAndIsolation ==
    /\ [](\A u \in Users :
            calls[u] # <<>>
            => LET window == user_messages[u]
               IN /\ window # <<>>
                  /\ window[Len(window)] = LastCall(u)
                  /\ \A i \in DOMAIN window : LastCall(u) - window[i] < 10
                  /\ \A i \in DOMAIN window : i > 1 => window[i - 1] <= window[i]
                  /\ Len(window) = NumWithin(calls[u], LastCall(u)))
    /\ [][/\ \A u, v \in Users : (Touched(u) /\ Touched(v)) => u = v
          /\ \A k \in Slots, v \in Users :
                (tasks'[k] # tasks[k] /\ Touched(v)) => v = HandlerUser(k)]_vars

\* a user's window lost its first timestamp to age and holds more
\* timestamps than spam_threshold, the user is being muted for the last of
\* them, and the other user has no window, no count and no restriction
C20_Witness ==
    \E u, v \in Users :
        /\ u # v
        /\ Len(calls[u]) > Len(user_messages[u])
        /\ Len(user_messages[u]) > config.spam_threshold
        /\ IsMuted(u)
        /\ user_messages[v] = <<>> /\ Count(user_violations, v) = 0 /\ ~IsMuted(v)

====
